---- MODULE Spec2Model ----
(***************************************************************************)
(* LinkedInJobAutomation, as a state machine.                              *)
(*                                                                         *)
(* The repository holds two variants of the same program:                  *)
(*   linkedin_using_ai.py        ("ai"):    Gemini and Groq, form          *)
(*                                          answering, resume upload       *)
(*   linkedin_job_automation.py  ("basic"): Gemini only, no form answering *)
(* `variant` says which file runs.  Every thread that can execute          *)
(* run_cycle (the main thread, and the BackgroundScheduler's worker) has   *)
(* a record th[t] with its position `pc` and the locals of run_cycle,      *)
(* apply_to_jobs and fill_application_steps.  The browser, the site and    *)
(* the AI providers are the environment: what they return is chosen with   *)
(* \E inside the action that makes the call.                               *)
(***************************************************************************)
EXTENDS Integers, Sequences, FiniteSets, TLC

\* ------------------------------------------------------------------ bounds
MaxQuota == 1
MaxKeywords == 2
MaxResults == 4
MaxFields == 2
MaxText == 2
MaxOverlap == 2

\* ------------------------------------------------------- program constants
\* for _ in range(6)
MaxSteps == 6
\* job_cards[:3]
CardsPerKeyword == 3

Threads == {"main", "sched"}
PostingIds == {"p1", "p2"}

VARIABLES
    variant,        \* which source file runs: "ai" or "basic"
    job_keywords,   \* self.job_keywords
    max_apps,       \* self.max_apps
    gemini_client,  \* self.gemini_client is not None (basic: self.ai_client)
    groq_client,    \* self.groq_client is not None
    applied_count,  \* self.applied_count
    driver,         \* self.driver: "none", "open" (a live browser), "quit"
    th,             \* per thread: position and locals
    acted,          \* history: postings for which a wizard session was started
    qa,             \* history: the get_ai_answer call just made (SpecAnswer)
    form,           \* history: the answer_form_questions call made (SpecForm)
    overlap         \* history: statements run while two run cycles were under way

vars == <<variant, job_keywords, max_apps, gemini_client, groq_client,
          applied_count, driver, th, acted, qa, form, overlap>>

config == <<variant, job_keywords, max_apps, gemini_client, groq_client>>

\* ----------------------------------------------------------------- helpers
Min(a, b) == IF a < b THEN a ELSE b

Take(s, n) == SubSeq(s, 1, Min(n, Len(s)))

SeqsUpTo(S, n) == UNION {[1..k -> S] : k \in 0..n}

\* ----------------------------------------------------------- AI responses
\* What a provider call does: it raises, or returns a response whose .text
\* is None, or one whose .text is a string (a sequence of characters).
Chars == {" ", "\"", "a", "1"}

Texts == SeqsUpTo(Chars, MaxText)

Responses ==
    {[kind |-> "raise", text |-> <<>>], [kind |-> "none", text |-> <<>>]}
        \cup {[kind |-> "text", text |-> s] : s \in Texts}

RECURSIVE LStrip(_)
LStrip(s) == IF s # <<>> /\ Head(s) = " " THEN LStrip(Tail(s)) ELSE s

RECURSIVE RStrip(_)
RStrip(s) ==
    IF s # <<>> /\ s[Len(s)] = " " THEN RStrip(SubSeq(s, 1, Len(s) - 1)) ELSE s

\* str.strip()
Strip(s) == RStrip(LStrip(s))

\* str.replace('"', '')
Unquote(s) == SelectSeq(s, LAMBDA c : c # "\"")

\* response.text.strip().replace('"', ''); None has no strip(): it raises
Clean(resp) == Unquote(Strip(resp.text))

CallFails(resp) == resp.kind \in {"raise", "none"}

\* get_ai_answer: `if self.gemini_client: ... elif self.groq_client: ...`
\* inside one try whose handler returns "".
GetAiAnswer(gemini, groq, gemResp, groqResp) ==
    IF gemini THEN (IF CallFails(gemResp) THEN <<>> ELSE Clean(gemResp))
    ELSE IF groq THEN (IF CallFails(groqResp) THEN <<>> ELSE Clean(groqResp))
    ELSE <<>>

\* self.user_profile: "Expected Salary (CTC): 18,00,000 INR (18 LPA)", which
\* the prompt asks to be given as '1800000'
SalaryFigure == <<"1", "8", "0", "0", "0", "0", "0">>

\* the field's label or aria-label, which goes into the prompt and nowhere
\* else
Questions == {"Expected CTC", "Notice Period"}

\* history of one get_ai_answer call: the question, what each provider
\* would do, and the answer that came back
NoAnswer ==
    [asked |-> FALSE, question |-> "none", gemResp |-> [kind |-> "raise", text |-> <<>>],
     groqResp |-> [kind |-> "raise", text |-> <<>>], answer |-> <<>>]

\* every answer get_ai_answer can produce under a provider configuration
AiAnswers ==
    [g \in BOOLEAN, r \in BOOLEAN |->
        {GetAiAnswer(g, r, a, b) : a \in Responses, b \in Responses}]

\* ---------------------------------------------------------- tailor_resume
Truthy(resp) == resp.kind = "text" /\ resp.text # <<>>

\* how a provider call ended, as tailor_resume sees it; `by` in the history
\* of a call is the provider whose text became tailored_text
CallKind(resp) ==
    IF resp.kind = "text" THEN (IF resp.text = <<>> THEN "empty" ELSE "text")
    ELSE resp.kind

NoTailor ==
    [called |-> FALSE, gemini |-> "skip", groq |-> "skip", by |-> "none",
     render |-> "skip", path |-> "none", raised |-> FALSE]

\* (mutant) tailor_resume raising when no provider gave a text or the PDF
\* could not be written, instead of returning self.resume_path
TailorResumeAiStrict(gemini, groq, gemResp, groqResp, mkdirOk, pdfOk) ==
    LET afterGemini == gemini /\ Truthy(gemResp)
        callGroq == ~afterGemini /\ groq
        tailored_text == afterGemini \/ (callGroq /\ Truthy(groqResp))
        saved == tailored_text /\ mkdirOk /\ pdfOk
    IN  [called |-> TRUE,
         gemini |-> IF gemini THEN CallKind(gemResp) ELSE "skip",
         groq |-> IF callGroq THEN CallKind(groqResp) ELSE "skip",
         by |-> IF afterGemini THEN "gemini"
                ELSE IF tailored_text THEN "groq" ELSE "none",
         render |-> IF tailored_text /\ mkdirOk
                    THEN (IF pdfOk THEN "ok" ELSE "failed") ELSE "skip",
         path |-> IF saved THEN "tailored" ELSE "none",
         raised |-> ~saved]

\* (mutant) Groq consulted whenever it is configured, its text taking the
\* place of Gemini's
TailorResumeAiBoth(gemini, groq, gemResp, groqResp, mkdirOk, pdfOk) ==
    LET afterGemini == gemini /\ Truthy(gemResp)
        fromGroq == groq /\ Truthy(groqResp)
        tailored_text == afterGemini \/ fromGroq
    IN  [called |-> TRUE,
         gemini |-> IF gemini THEN CallKind(gemResp) ELSE "skip",
         groq |-> IF groq THEN CallKind(groqResp) ELSE "skip",
         by |-> IF fromGroq THEN "groq"
                ELSE IF afterGemini THEN "gemini" ELSE "none",
         render |-> IF tailored_text /\ mkdirOk
                    THEN (IF pdfOk THEN "ok" ELSE "failed") ELSE "skip",
         path |-> IF tailored_text /\ mkdirOk /\ pdfOk THEN "tailored"
                  ELSE IF tailored_text /\ ~mkdirOk THEN "none" ELSE "original",
         raised |-> tailored_text /\ ~mkdirOk]

\* tailor_resume of linkedin_using_ai.py.  Gemini, then Groq `if not
\* tailored_text`; each call in its own try/except: pass.  folder.mkdir is
\* outside every try; create_pdf returns False on any fault.
TailorResumeAi(gemini, groq, gemResp, groqResp, mkdirOk, pdfOk) ==
    LET afterGemini == gemini /\ Truthy(gemResp)
        callGroq == ~afterGemini /\ groq
        tailored_text == afterGemini \/ (callGroq /\ Truthy(groqResp))
    IN  [called |-> TRUE,
         gemini |-> IF gemini THEN CallKind(gemResp) ELSE "skip",
         groq |-> IF callGroq THEN CallKind(groqResp) ELSE "skip",
         by |-> IF afterGemini THEN "gemini"
                ELSE IF tailored_text THEN "groq" ELSE "none",
         render |-> IF tailored_text /\ mkdirOk
                    THEN (IF pdfOk THEN "ok" ELSE "failed") ELSE "skip",
         path |-> IF tailored_text /\ mkdirOk /\ pdfOk THEN "tailored"
                  ELSE IF tailored_text /\ ~mkdirOk THEN "none" ELSE "original",
         raised |-> tailored_text /\ ~mkdirOk]

\* tailor_resume of linkedin_job_automation.py: one try around reading the
\* resume, the Gemini call and writing response.text (None: write raises);
\* its handler returns self.resume_path.
TailorResumeBasic(readOk, gemResp, writeOk) ==
    LET written == readOk /\ gemResp.kind = "text" /\ writeOk
    IN  [called |-> TRUE,
         gemini |-> IF readOk THEN CallKind(gemResp) ELSE "skip",
         groq |-> "skip",
         by |-> IF readOk /\ gemResp.kind = "text" THEN "gemini" ELSE "none",
         render |-> IF readOk /\ gemResp.kind # "raise"
                    THEN (IF written THEN "ok" ELSE "failed") ELSE "skip",
         path |-> IF written THEN "tailored" ELSE "original",
         raised |-> FALSE]

\* every way a tailor_resume call can end, per variant and configuration
TailorOutcomes ==
    [v \in {"ai", "basic"}, g \in BOOLEAN, r \in BOOLEAN |->
        IF v = "ai"
        THEN {TailorResumeAi(g, r, a, b, m, p) :
                a \in Responses, b \in Responses, m \in BOOLEAN, p \in BOOLEAN}
        ELSE {TailorResumeBasic(m, a, p) :
                a \in Responses, m \in BOOLEAN, p \in BOOLEAN}]

\* ------------------------------------------------- answer_form_questions
\* An input element of the step: is_displayed(), get_attribute('value')
\* ("" or some text "x"), and whether a label or aria-label gives a question.
Fields == [displayed : BOOLEAN, value : {"", "x"}, question : BOOLEAN]

\* (mutant) the pre-filled test left out
FieldIsDisplayed(field) == field.displayed

\* `if not field.is_displayed(): continue` and
\* `if field.get_attribute('value'): continue`
FieldIsCandidate(field) == field.displayed /\ field.value = ""

\* (mutant) `if answer:` left out: send_keys is called with whatever came back
SendsKeysAlways(field, answer) == FieldIsCandidate(field) /\ field.question

\* `if question: answer = self.get_ai_answer(question)` and
\* `if answer: field.send_keys(answer)`, for a field the two tests let through
SendsKeys(field, answer) ==
    FieldIsCandidate(field) /\ field.question /\ answer # <<>>

\* answer_form_questions field by field, get_ai_answer returning answers[i]
\* for the i-th input: "sent" (send_keys was called), "left", or "unseen"
\* (a call raised at the faultAt-th field and ended the pass)
FormPass(inputs, answers, faultAt) ==
    [i \in 1..Len(inputs) |->
        IF faultAt # 0 /\ i >= faultAt THEN "unseen"
        ELSE IF SendsKeys(inputs[i], answers[i]) THEN "sent" ELSE "left"]

NoForm ==
    [called |-> FALSE, inputs |-> <<>>, answers |-> <<>>, faultAt |-> 0,
     done |-> <<>>]

\* One pass of answer_form_questions over `inputs`; answered[i] says whether
\* get_ai_answer returned a non-empty answer for the i-th field; faultAt = k
\* (k > 0): a call raised while the k-th field was handled, which ends the
\* pass (`except Exception: pass`).  Result: what was written and skipped.
AnswerPass(inputs, answered, faultAt) ==
    LET seen == IF faultAt = 0 THEN 1..Len(inputs) ELSE 1..(faultAt - 1)
    IN  [done |-> TRUE,
         wrote |-> {[displayed |-> inputs[i].displayed, value |-> inputs[i].value] :
                      i \in {j \in seen : /\ FieldIsCandidate(inputs[j])
                                           /\ inputs[j].question
                                           /\ answered[j]}},
         skipped |-> \E i \in seen : inputs[i].displayed /\ inputs[i].value # "",
         fault |-> faultAt # 0]

NoFill == [done |-> FALSE, wrote |-> {}, skipped |-> FALSE, fault |-> FALSE]

\* find_elements itself raising: nothing is inspected
FindFault == [done |-> TRUE, wrote |-> {}, skipped |-> FALSE, fault |-> TRUE]

\* whether get_ai_answer can come back non-empty / empty under a configuration
Answered == [g \in BOOLEAN, r \in BOOLEAN |-> {a # <<>> : a \in AiAnswers[g, r]}]

AnswerOutcomes ==
    [g \in BOOLEAN, r \in BOOLEAN |->
        {FindFault} \cup
        UNION {{AnswerPass(inputs, answered, faultAt) :
                    answered \in [1..Len(inputs) -> Answered[g, r]],
                    faultAt \in 0..Len(inputs)} :
               inputs \in SeqsUpTo(Fields, MaxFields)}]

\* ------------------------------------------------------------- controls
\* The posting's apply button texts.
ApplyTexts == {"Easy Apply", "Apply"}

\* `"Easy Apply" in text`
HasEasyApply(text) == text \in {"Easy Apply"}

\* (mutant) the button's text is not looked at
AnyApplyButton(apply_btns) == Len(apply_btns) > 0

\* `if apply_btns and "Easy Apply" in apply_btns[0].text`
EasyApplySupported(apply_btns) ==
    Len(apply_btns) > 0 /\ HasEasyApply(apply_btns[1])

\* Buttons the navigation XPath matches: aria-label contains Continue, Next,
\* Review or Submit.
NavButtons ==
    {[aria |-> "Continue to next step", text |-> "Next"],
     [aria |-> "Review your application", text |-> "Review"],
     [aria |-> "Submit application", text |-> "Submit application"],
     [aria |-> "Submit", text |-> "Send"]}

\* `"Submit" in b.text or "Submit application" in b.get_attribute("aria-label")`
IsSubmit(b) ==
    b.text \in {"Submit application"} \/ b.aria \in {"Submit application"}

\* submit_btn = [b for b in buttons if ...]
SubmitBtn(buttons) == SelectSeq(buttons, IsSubmit)

\* contains(@aria-label, 'Submit'), the XPath's last alternative
AriaHasSubmit(b) == b.aria \in {"Submit application", "Submit"}

\* what the step's buttons were: none, one whose aria-label contains
\* Submit among them, or Continue / Next / Review only
Offered(buttons) ==
    IF buttons = <<>> THEN "none"
    ELSE IF \E i \in 1..Len(buttons) : AriaHasSubmit(buttons[i]) THEN "submit"
    ELSE "nav"

\* the button the step clicks: submit_btn[0], or else buttons[0], which is
\* a Continue / Next / Review button or one whose aria-label contains
\* Submit and that the filter did not take
Clicked(buttons) ==
    IF buttons = <<>> THEN "none"
    ELSE IF SubmitBtn(buttons) # <<>> THEN "submit"
    ELSE IF AriaHasSubmit(buttons[1]) THEN "other_submit"
    ELSE "continue"

\* ------------------------------------------------------------------ state
SessionPcs ==
    {"apply_click", "tailor", "wiz_answer", "wiz_upload", "wiz_nav", "wiz_ret",
     "dismiss", "confirm"}

WizardPcs == {"wiz_answer", "wiz_upload", "wiz_nav"}

\* a thread outside run_cycle, at position p
Resting(p) ==
    [pc |-> p,
     keyword |-> 0,            \* index of `keyword` in job_keywords
     job_cards |-> <<>>,       \* the cards of job_cards[:3] not yet visited
     found |-> <<>>,           \* history: the cards the search just yielded
     card |-> "none",          \* the posting `card` shows
     apply_btns |-> <<>>,      \* texts of the apply buttons found
     resume_to_use |-> "none", \* what tailor_resume returned
     step |-> 0,               \* iterations of `for _ in range(6)` begun
     submitted |-> FALSE,      \* what fill_application_steps returned
     error |-> FALSE,          \* an exception is leaving run_cycle
     tailor |-> NoTailor,      \* history: the tailor_resume call just made
     fill |-> NoFill,          \* history: the answer pass just made
     attached |-> "none",      \* history: the file attached in this step
     clicked |-> "none",       \* history: the control the last step clicked
     offered |-> "none",       \* history: the controls the last step found
     fault |-> "none"]         \* history: where this session last faulted

TypeOK ==
    /\ variant \in {"ai", "basic"}
    /\ max_apps \in 0..MaxQuota
    /\ applied_count \in Nat
    /\ driver \in {"none", "open", "quit"}
    /\ acted \subseteq PostingIds
    /\ \A t \in Threads :
        /\ th[t].step \in 0..MaxSteps
        /\ th[t].keyword \in 0..(Len(job_keywords) + 1)
        /\ Len(th[t].job_cards) <= CardsPerKeyword

\* __init__: the configuration read from the environment, applied_count = 0,
\* driver = None.  The basic variant refuses to start without a Gemini key
\* and has no Groq client.
Init ==
    /\ variant \in {"ai", "basic"}
    /\ job_keywords \in {[i \in 1..n |-> i] : n \in 1..MaxKeywords}
    /\ max_apps \in 0..MaxQuota
    /\ gemini_client \in (IF variant = "ai" THEN BOOLEAN ELSE {TRUE})
    /\ groq_client \in (IF variant = "ai" THEN BOOLEAN ELSE {FALSE})
    /\ applied_count = 0
    /\ driver = "none"
    /\ th = [t \in Threads |-> Resting(IF t = "main" THEN "start" ELSE "idle")]
    /\ acted = {}
    /\ qa = NoAnswer
    /\ form = NoForm
    /\ overlap = 0

\* the process is alive: an exception that left start() ends it, with the
\* scheduler's daemon thread
Alive == th["main"].pc # "crashed"

\* thread t is inside run_cycle
InCycle(t) == th[t].pc \notin {"start", "idle", "sleep", "crashed"}

\* two run cycles are under way at once
Overlapping == \A t \in Threads : InCycle(t)

\* Thread t runs its next statement.  Two run cycles under way at once are
\* followed for MaxOverlap statements.
Runs(t) ==
    /\ Alive
    /\ Overlapping => overlap < MaxOverlap
    /\ overlap' = IF Overlapping THEN overlap + 1 ELSE overlap

\* a driver call can return normally
DriverOk == driver = "open"

Goto(t, p) == th' = [th EXCEPT ![t].pc = p]

Set(t, r) == th' = [th EXCEPT ![t] = r]

\* (mutant) the quota test written with > for >=
QuotaReachedLate == applied_count > max_apps

\* `if self.applied_count >= self.max_apps: break`
QuotaReached == applied_count >= max_apps

\* `continue` of the card loop (the handler of the per-card try)
NextCard(t) == [th[t] EXCEPT !.pc = "card_check"]

\* the first position of an iteration of fill_application_steps
StepBegin == IF variant = "ai" THEN "wiz_answer" ELSE "wiz_nav"

\* an exception leaves apply_to_jobs, login or setup_driver: run_cycle's
\* finally runs; linkedin_job_automation.py has no except clause, so there
\* the exception goes on to the caller.
Raise(t) == [th[t] EXCEPT !.pc = "quit", !.error = (variant = "basic")]

\* ---------------------------------------------------------------- start
\* start(): the scheduler is started, then run_cycle() is called directly.
Start ==
    /\ th["main"].pc = "start"
    /\ Goto("main", "setup")
    /\ UNCHANGED <<config, applied_count, driver, acted, qa, form, overlap>>

\* The 9:00 trigger fires while the main thread sits in `while True: sleep`.
Trigger ==
    /\ Alive
    /\ th["sched"].pc = "idle"
    /\ th["main"].pc = "sleep"
    /\ Goto("sched", "setup")
    /\ UNCHANGED <<config, applied_count, driver, acted, qa, form, overlap>>

\* The 9:00 trigger fires while the main thread is still inside the
\* run_cycle() it called itself: the scheduler's worker starts run_cycle too.
TriggerDuringCycle ==
    /\ Alive
    /\ th["sched"].pc = "idle"
    /\ th["main"].pc \notin {"start", "sleep", "crashed"}
    /\ Goto("sched", "setup")
    /\ UNCHANGED <<config, applied_count, driver, acted, qa, form, overlap>>

\* ------------------------------------------------------------ run_cycle
\* setup_driver: webdriver.Chrome(...) returns a browser or raises.
SetupDriver(t) ==
    /\ Runs(t)
    /\ th[t].pc = "setup"
    /\ \/ driver' = "open" /\ Goto(t, "login")
       \/ driver' = driver /\ Set(t, Raise(t))
    /\ UNCHANGED <<config, applied_count, acted, qa, form>>

\* login: any fault is logged and raised again.
Login(t) ==
    /\ Runs(t)
    /\ th[t].pc = "login"
    /\ \/ DriverOk /\ Set(t, [th[t] EXCEPT !.pc = "kw_check", !.keyword = 1])
       \/ Set(t, Raise(t))
    /\ UNCHANGED <<config, applied_count, driver, acted, qa, form>>

\* (mutant) the applied count set back to 0 at the end of every run cycle
QuitResetsCount(t) ==
    /\ Runs(t)
    /\ th[t].pc = "quit"
    /\ driver' = IF driver = "none" THEN "none" ELSE "quit"
    /\ applied_count' = 0
    /\ Set(t, Resting(IF t = "sched" THEN "idle"
                      ELSE IF th[t].error THEN "crashed" ELSE "sleep"))
    /\ UNCHANGED <<config, acted, qa, form>>

\* finally: `if self.driver: self.driver.quit()`; run_cycle returns, or the
\* exception goes on: out of start() on the main thread, into the
\* scheduler's job handler on its worker.
Quit(t) ==
    /\ Runs(t)
    /\ th[t].pc = "quit"
    /\ driver' = IF driver = "none" THEN "none" ELSE "quit"
    /\ Set(t, Resting(IF t = "sched" THEN "idle"
                      ELSE IF th[t].error THEN "crashed" ELSE "sleep"))
    /\ UNCHANGED <<config, applied_count, acted, qa, form>>

\* -------------------------------------------------------- apply_to_jobs
\* (mutant) the keyword loop without its quota break
KeywordCheckNoBreak(t) ==
    /\ Runs(t)
    /\ th[t].pc = "kw_check"
    /\ IF th[t].keyword > Len(job_keywords)
       THEN Goto(t, "quit")
       ELSE Goto(t, "search")
    /\ UNCHANGED <<config, applied_count, driver, acted, qa, form>>

\* `for keyword in self.job_keywords:` with its quota break; the end of the
\* loop, or the break, ends apply_to_jobs.
KeywordCheck(t) ==
    /\ Runs(t)
    /\ th[t].pc = "kw_check"
    /\ IF th[t].keyword > Len(job_keywords) \/ QuotaReached
       THEN Goto(t, "quit")
       ELSE Goto(t, "search")
    /\ UNCHANGED <<config, applied_count, driver, acted, qa, form>>

\* the per-card locals and histories, as they are before a card is visited
Fresh(r) ==
    [r EXCEPT !.card = "none", !.found = <<>>,
              !.apply_btns = <<>>, !.resume_to_use = "none",
              !.step = 0, !.submitted = FALSE, !.tailor = NoTailor,
              !.fill = NoFill, !.attached = "none", !.clicked = "none",
              !.offered = "none", !.fault = "none"]

NextKeyword(t) ==
    [Fresh(th[t]) EXCEPT !.pc = "kw_check", !.keyword = @ + 1, !.job_cards = <<>>]

\* (mutant) `for card in job_cards:`, every card the search yielded
SearchNoCap(t) ==
    /\ Runs(t)
    /\ th[t].pc = "search"
    /\ \/ Set(t, Raise(t))
       \/ Set(t, NextKeyword(t))
       \/ /\ DriverOk
          /\ \E found \in SeqsUpTo(PostingIds, MaxResults) \ {<<>>} :
                Set(t, [th[t] EXCEPT !.pc = "card_check", !.found = found,
                                     !.job_cards = found])
    /\ UNCHANGED <<config, applied_count, driver, acted, qa, form>>

\* driver.get(search_url), outside the try: a fault leaves apply_to_jobs.
\* WebDriverWait(...).until(presence_of_all_elements_located): the cards
\* (at least one), or a fault handled by "No jobs found"; job_cards[:3].
Search(t) ==
    /\ Runs(t)
    /\ th[t].pc = "search"
    /\ \/ Set(t, Raise(t))
       \/ Set(t, NextKeyword(t))
       \/ /\ DriverOk
          /\ \E found \in SeqsUpTo(PostingIds, MaxResults) \ {<<>>} :
                Set(t, [th[t] EXCEPT !.pc = "card_check", !.found = found,
                                     !.job_cards = Take(found, CardsPerKeyword)])
    /\ UNCHANGED <<config, applied_count, driver, acted, qa, form>>

\* `for card in job_cards[:3]:` with its quota break: the break leaves the
\* card loop only, the keyword loop goes on.
CardCheck(t) ==
    /\ Runs(t)
    /\ th[t].pc = "card_check"
    /\ IF th[t].job_cards = <<>> \/ QuotaReached
       THEN Set(t, NextKeyword(t))
       ELSE Set(t, [Fresh(th[t]) EXCEPT !.pc = "open",
                                        !.card = Head(th[t].job_cards),
                                        !.job_cards = Tail(th[t].job_cards)])
    /\ UNCHANGED <<config, applied_count, driver, acted, qa, form>>

\* scrollIntoView, card.click(), company name and job details.  The ai
\* variant defaults the two texts; the basic variant lets a missing
\* job-details element end the card.
OpenCard(t) ==
    /\ Runs(t)
    /\ th[t].pc = "open"
    /\ \/ DriverOk /\ Goto(t, "find_apply")
       \/ Set(t, NextCard(t))
    /\ UNCHANGED <<config, applied_count, driver, acted, qa, form>>

\* find_elements(... 'jobs-apply-button'): the buttons' texts.  (basic:
\* find_element, which raises when there is none; the handler is the same
\* `continue` the failed test leads to.)
FindApply(t) ==
    /\ Runs(t)
    /\ th[t].pc = "find_apply"
    /\ \/ /\ DriverOk
          /\ \E btns \in SeqsUpTo(ApplyTexts, 2) :
                Set(t, [th[t] EXCEPT !.pc = "gate", !.apply_btns = btns])
       \/ Set(t, NextCard(t))
    /\ UNCHANGED <<config, applied_count, driver, acted, qa, form>>

\* `if apply_btns and "Easy Apply" in apply_btns[0].text:` and nothing
\* else for the card otherwise.  ai: the button is clicked first and the
\* resume tailored next; basic: the other way round.
Gate(t) ==
    /\ Runs(t)
    /\ th[t].pc = "gate"
    /\ IF EasyApplySupported(th[t].apply_btns)
       THEN Set(t, [th[t] EXCEPT !.apply_btns = <<>>,
                        !.pc = IF variant = "ai" THEN "apply_click" ELSE "tailor"])
       ELSE Set(t, NextCard(t))
    /\ UNCHANGED <<config, applied_count, driver, acted, qa, form>>

\* apply_btns[0].click(): the wizard opens, or the click raises.  `card` is
\* not read again once the wizard is open.
ApplyClick(t) ==
    /\ Runs(t)
    /\ th[t].pc = "apply_click"
    /\ \/ /\ DriverOk
          /\ acted' = acted \cup {th[t].card}
          /\ Set(t, [th[t] EXCEPT !.tailor = NoTailor, !.card = "none",
                         !.step = IF variant = "ai" THEN 0 ELSE 1,
                         !.pc = IF variant = "ai" THEN "tailor" ELSE StepBegin])
       \/ /\ acted' = acted
          /\ Set(t, [NextCard(t) EXCEPT !.tailor = NoTailor])
    /\ UNCHANGED <<config, applied_count, driver, qa, form>>

\* resume_to_use = self.tailor_resume(...) (basic: the result is dropped).
\* In the ai variant a fault of folder.mkdir leaves tailor_resume and is
\* handled by the card's `except: continue`.
Tailor(t) ==
    /\ Runs(t)
    /\ th[t].pc = "tailor"
    /\ \E out \in TailorOutcomes[variant, gemini_client, groq_client] :
          IF out.raised
          THEN Set(t, [NextCard(t) EXCEPT !.tailor = out])
          ELSE Set(t, [th[t] EXCEPT !.tailor = out,
                           !.resume_to_use = out.path,
                           !.step = IF variant = "ai" THEN 1 ELSE 0,
                           !.pc = IF variant = "ai" THEN StepBegin ELSE "apply_click"])
    /\ UNCHANGED <<config, applied_count, driver, acted, qa, form>>

\* ----------------------------------------------- fill_application_steps
\* 1. self.answer_form_questions() (ai only): every fault stays inside it.
AnswerFormQuestions(t) ==
    /\ Runs(t)
    /\ th[t].pc = "wiz_answer"
    /\ \E out \in AnswerOutcomes[gemini_client, groq_client] :
          /\ out.fault \/ DriverOk
          /\ Set(t, [th[t] EXCEPT !.pc = "wiz_upload", !.tailor = NoTailor,
                         !.fill = out, !.attached = "none",
                         !.clicked = "none", !.offered = "none",
                         !.fault = IF out.fault THEN "step" ELSE @])
    /\ UNCHANGED <<config, applied_count, driver, acted, qa, form>>

\* 2. the file input, if there is one, gets resume_path; `except: pass`.
UploadResume(t) ==
    /\ Runs(t)
    /\ th[t].pc = "wiz_upload"
    /\ \/ /\ DriverOk
          /\ \E file_inputs \in BOOLEAN :
                Set(t, [th[t] EXCEPT !.pc = "wiz_nav", !.fill = NoFill,
                            !.attached = IF file_inputs THEN th[t].resume_to_use
                                         ELSE "none"])
       \/ Set(t, [th[t] EXCEPT !.pc = "wiz_nav", !.fill = NoFill,
                       !.fault = "step"])
    /\ UNCHANGED <<config, applied_count, driver, acted, qa, form>>

\* fill_application_steps returns
Return(t, result, control) ==
    [th[t] EXCEPT !.pc = "wiz_ret", !.submitted = result, !.attached = "none",
                  !.tailor = NoTailor, !.clicked = control, !.offered = "none"]

\* history: the buttons the step found and the one it clicked
Shown(r, buttons) ==
    [r EXCEPT !.clicked = Clicked(buttons), !.offered = Offered(buttons)]

\* (mutant) the loop without its bound: `while True`
NextStepUnbounded(t) ==
    [th[t] EXCEPT !.pc = StepBegin, !.step = @ + 1, !.attached = "none",
                  !.tailor = NoTailor]

\* the end of one iteration of `for _ in range(6)`: the next one, or the
\* `return False` after the loop
NextStep(t) ==
    IF th[t].step < MaxSteps
    THEN [th[t] EXCEPT !.pc = StepBegin, !.step = @ + 1, !.attached = "none",
                       !.tailor = NoTailor]
    ELSE Return(t, FALSE, "continue")

\* (mutant) a fault of the navigation swallowed like the upload's: the loop
\* goes on
NavigateFaultSwallowed(t) ==
    /\ Runs(t)
    /\ th[t].pc = "wiz_nav"
    /\ \/ /\ DriverOk
          /\ \E buttons \in SeqsUpTo(NavButtons, 2) :
                IF buttons = <<>> THEN Set(t, Return(t, FALSE, "none"))
                ELSE IF SubmitBtn(buttons) # <<>>
                     THEN Set(t, Shown(Return(t, TRUE, "submit"), buttons))
                ELSE Set(t, Shown(NextStep(t), buttons))
       \/ Set(t, [NextStep(t) EXCEPT !.fault = "nav"])
    /\ UNCHANGED <<config, applied_count, driver, acted, qa, form>>

\* 3. the navigation buttons: none: break; a submit button: click it and
\* return True; otherwise click buttons[0].  A fault of find_elements, of
\* .text / get_attribute or of click is the outer `except: return False`.
Navigate(t) ==
    /\ Runs(t)
    /\ th[t].pc = "wiz_nav"
    /\ \/ /\ DriverOk
          /\ \E buttons \in SeqsUpTo(NavButtons, 2) :
                IF buttons = <<>> THEN Set(t, Return(t, FALSE, "none"))
                ELSE IF SubmitBtn(buttons) # <<>>
                     THEN Set(t, Shown(Return(t, TRUE, "submit"), buttons))
                ELSE Set(t, Shown(NextStep(t), buttons))
       \/ Set(t, [Return(t, FALSE, "none") EXCEPT !.fault = "nav"])
    /\ UNCHANGED <<config, applied_count, driver, acted, qa, form>>

\* `if self.fill_application_steps(...): self.applied_count += 1`, else the
\* dismiss sequence.
Outcome(t) ==
    /\ Runs(t)
    /\ th[t].pc = "wiz_ret"
    /\ IF th[t].submitted
       THEN /\ applied_count' = applied_count + 1
            /\ Set(t, [NextCard(t) EXCEPT !.fault = "none", !.clicked = "none",
                                          !.offered = "none"])
       ELSE /\ applied_count' = applied_count
            /\ Set(t, [th[t] EXCEPT !.pc = "dismiss", !.fault = "none",
                                    !.clicked = "none", !.offered = "none"])
    /\ UNCHANGED <<config, driver, acted, qa, form>>

\* (mutant) a fault of the Dismiss click handled by no try: it leaves
\* apply_to_jobs
DismissFaultEscapes(t) ==
    /\ Runs(t)
    /\ th[t].pc = "dismiss"
    /\ \/ DriverOk /\ Goto(t, "confirm")
       \/ Set(t, Raise(t))
    /\ UNCHANGED <<config, applied_count, driver, acted, qa, form>>

\* find_element(Dismiss).click(): a fault ends the card (ai: `except: pass`;
\* basic: the card's `except Exception: continue`).
Dismiss(t) ==
    /\ Runs(t)
    /\ th[t].pc = "dismiss"
    /\ \/ DriverOk /\ Goto(t, "confirm")
       \/ Set(t, NextCard(t))
    /\ UNCHANGED <<config, applied_count, driver, acted, qa, form>>

\* find_element(discard_application_confirm_btn).click(), fault or not.
Confirm(t) ==
    /\ Runs(t)
    /\ th[t].pc = "confirm"
    /\ Set(t, NextCard(t))
    /\ UNCHANGED <<config, applied_count, driver, acted, qa, form>>

\* ---------------------------------------------------------------- specs
Step(t) ==
    \/ SetupDriver(t) \/ Login(t) \/ Quit(t)
    \/ KeywordCheck(t) \/ Search(t) \/ CardCheck(t) \/ OpenCard(t)
    \/ FindApply(t) \/ Gate(t) \/ ApplyClick(t) \/ Tailor(t)
    \/ AnswerFormQuestions(t) \/ UploadResume(t) \/ Navigate(t)
    \/ Outcome(t) \/ Dismiss(t) \/ Confirm(t)

Next == Start \/ Trigger \/ \E t \in Threads : Step(t)

\* the run cycles one after the other
Spec == Init /\ [][Next]_vars

\* the scheduler's worker may start its run cycle while the main thread's
\* first run cycle is still going
NextSched == Next \/ TriggerDuringCycle

\* one keyword is enough to see two run cycles under way at once
InitSched == Init /\ Len(job_keywords) = 1

SpecSched == InitSched /\ [][NextSched]_vars

\* get_ai_answer on its own: one call, under every provider configuration
\* of the ai variant, for each question and every pair of provider behaviours
InitAnswer == Init /\ variant = "ai"

Ask ==
    /\ ~qa.asked
    /\ \E question \in Questions, a \in Responses, b \in Responses :
          qa' = [asked |-> TRUE, question |-> question,
                 gemResp |-> a, groqResp |-> b,
                 answer |-> GetAiAnswer(gemini_client, groq_client, a, b)]
    /\ UNCHANGED <<config, applied_count, driver, th, acted, form, overlap>>

SpecAnswer == InitAnswer /\ [][Ask]_vars

\* answer_form_questions on its own: one call, over every list of inputs,
\* every answer get_ai_answer can give for each (the pass only tests whether
\* an answer is empty: answers of at most one character are drawn) and every
\* place a fault can end the pass
InitForm == Init /\ variant = "ai" /\ Len(job_keywords) = 1

FormAnswers ==
    [g \in BOOLEAN, r \in BOOLEAN |-> {a \in AiAnswers[g, r] : Len(a) <= 1}]

FillForm ==
    /\ ~form.called
    /\ \E inputs \in SeqsUpTo(Fields, MaxFields) :
          \E answers \in [1..Len(inputs) -> FormAnswers[gemini_client, groq_client]],
             faultAt \in 0..Len(inputs) :
                form' = [called |-> TRUE, inputs |-> inputs, answers |-> answers,
                         faultAt |-> faultAt,
                         done |-> FormPass(inputs, answers, faultAt)]
    /\ UNCHANGED <<config, applied_count, driver, th, acted, qa, overlap>>

SpecForm == InitForm /\ [][FillForm]_vars

\* ---------------------------------------------------------------- claims
Moved(t) == th'[t] # th[t]

StepsLeft(r) ==
    (MaxSteps - r.step) * 3
        + (CASE r.pc = "wiz_answer" -> 2 [] r.pc = "wiz_upload" -> 1 [] OTHER -> 0)

\* C2: fill_application_steps returns after at most 6 iterations whatever
\* the wizard shows: every statement it runs either returns (submitted or
\* not) or uses up one of a bounded number of steps left, which is never
\* negative.
C2_WizardTerminates ==
    [][\A t \in Threads :
        (th[t].pc \in WizardPcs /\ Moved(t)) =>
            \/ th'[t].pc = "wiz_ret" /\ th'[t].submitted \in BOOLEAN
            \/ /\ th'[t].pc \in WizardPcs
               /\ StepsLeft(th'[t]) < StepsLeft(th[t])
               /\ StepsLeft(th'[t]) >= 0]_vars

\* C2 witness: Continue was offered and clicked in all 6 iterations and the
\* function returned False
C2_Witness ==
    \E t \in Threads :
        /\ th[t].pc = "wiz_ret" /\ th[t].step = MaxSteps
        /\ th[t].clicked = "continue" /\ ~th[t].submitted

\* C3 (as claimed): a wizard session is never started for a posting for
\* which one was started before.
C3_NoSecondSession ==
    [][\A t \in Threads :
        (th[t].pc = "apply_click" /\ th'[t].pc \in {"tailor"} \cup WizardPcs)
            => th[t].card \notin acted]_vars

\* C4 (as claimed): when Gemini is configured and its call fails, and Groq is
\* configured and returns non-empty text, get_ai_answer returns a non-empty
\* answer.
C4_FallbackAnswer ==
    (/\ qa.asked
     /\ gemini_client /\ CallFails(qa.gemResp)
     /\ groq_client /\ Truthy(qa.groqResp))
        => qa.answer # <<>>

\* C5: every field an answer pass wrote to was displayed and had an empty
\* value when it was inspected.
C5_NonDestructiveFill ==
    \A t \in Threads :
        \A w \in th[t].fill.wrote : w.displayed /\ w.value = ""

\* C5 witness: a pass that left a pre-filled field alone and wrote to an
\* empty one
C5_Witness ==
    \E t \in Threads :
        th[t].fill.done /\ th[t].fill.skipped /\ th[t].fill.wrote # {}

\* the loops stand where they stood: same keyword, same cards to visit
SameLoops(t) ==
    /\ th'[t].keyword = th[t].keyword
    /\ th'[t].job_cards = th[t].job_cards

\* C6: after a session that was not submitted the next thing done is the
\* Dismiss click, the confirmation click follows a Dismiss click and nothing
\* else, the applied count stays as it is, and with or without a fault in
\* the sequence the card loop goes on with the cards that are left.
C6_DismissSequence ==
    [][\A t \in Threads :
        /\ (th[t].pc = "wiz_ret" /\ ~th[t].submitted /\ Moved(t))
              => th'[t].pc = "dismiss" /\ applied_count' = applied_count
        /\ (th[t].pc = "dismiss" /\ Moved(t))
              => /\ th'[t].pc \in {"confirm", "card_check"}
                 /\ applied_count' = applied_count /\ SameLoops(t)
        /\ (th[t].pc = "confirm" /\ Moved(t))
              => /\ th'[t].pc = "card_check"
                 /\ applied_count' = applied_count /\ SameLoops(t)
        /\ (th'[t].pc = "confirm" /\ Moved(t)) => th[t].pc = "dismiss"]_vars

\* C6 witness: Dismiss was clicked after a session that was not submitted,
\* the confirmation is next, and cards are left
C6_Witness ==
    \E t \in Threads :
        th[t].pc = "confirm" /\ ~th[t].submitted /\ th[t].job_cards # <<>>

\* no provider that was called gave a response with a text
ProvidersFailed(x) ==
    /\ x.gemini \in {"skip", "raise", "none"}
    /\ x.groq \in {"skip", "raise", "none"}

C9_OneCycleAtATime == Cardinality({t \in Threads : InCycle(t)}) <= 1

\* C10: a posting with no apply button, or whose first apply button's text
\* lacks "Easy Apply", is left at once: the next statement is the card
\* loop's, no tailoring was done, no session started, and the applied count
\* and the cards left are as before.
C10_NoQuickApplySkipped ==
    [][\A t \in Threads :
        (/\ th[t].pc = "gate" /\ Moved(t)
         /\ (th[t].apply_btns = <<>> \/ th[t].apply_btns[1] # "Easy Apply"))
            => /\ th'[t].pc = "card_check"
               /\ th'[t].tailor = NoTailor /\ th'[t].step = 0
               /\ applied_count' = applied_count /\ acted' = acted
               /\ SameLoops(t)]_vars

\* C10 witness: a posting whose button reads "Apply" was left, and the loop
\* has another card to go to
C10_Witness ==
    \E t \in Threads :
        /\ th[t].pc = "card_check" /\ th[t].apply_btns = <<"Apply">>
        /\ th[t].job_cards # <<>>

\* C11 (as claimed): a failure while a posting is opened, or while a
\* keyword's search results are loaded, stays inside apply_to_jobs: the
\* applied count keeps its value and the thread is at the card loop
\* (opening went well: at the apply button), respectively at the keyword
\* loop or the cards found, never on its way out of run_cycle.
C11_FailureIsolated ==
    [][\A t \in Threads :
        /\ (th[t].pc = "open" /\ Moved(t))
              => /\ th'[t].pc \in {"find_apply", "card_check"}
                 /\ applied_count' = applied_count /\ SameLoops(t)
        /\ (th[t].pc = "search" /\ Moved(t))
              => /\ th'[t].pc \in {"card_check", "kw_check"}
                 /\ applied_count' = applied_count
                 /\ th'[t].keyword \in {th[t].keyword, th[t].keyword + 1}]_vars

\* C12 (as claimed): a run cycle is left before the keyword loop has ended
\* only by a failure of setting up the browser or of signing in: a thread
\* on its way out of run_cycle comes from the keyword loop's end or quota
\* break, or from setup_driver or login; no statement about one posting
\* takes it there.
C12_OnlyLoginAborts ==
    [][\A t \in Threads :
        /\ (Moved(t) /\ th'[t].pc = "quit")
              => th[t].pc \in {"kw_check", "setup", "login"}
        /\ (Moved(t) /\ th[t].pc \in SessionPcs \cup {"open", "find_apply", "gate"})
              => th'[t].pc \notin {"quit", "crashed"}]_vars

C14_EmptyAnswerLeavesField ==
    form.called =>
        \A i \in 1..Len(form.inputs) :
            (form.answers[i] = <<>> /\ form.done[i] # "unseen") =>
                /\ form.done[i] = "left"
                /\ \A j \in (i + 1)..Len(form.inputs) :
                      (form.faultAt = 0 \/ j < form.faultAt) =>
                          (form.done[j] = "sent" <=>
                              /\ form.inputs[j].displayed
                              /\ form.inputs[j].value = ""
                              /\ form.inputs[j].question
                              /\ form.answers[j] # <<>>)
                          /\ form.done[j] \in {"sent", "left"}

\* C14 witness: the first field, empty and with a question, got the empty
\* answer and was left, and the second was written to
C14_Witness ==
    /\ form.called /\ Len(form.inputs) = 2
    /\ FieldIsCandidate(form.inputs[1]) /\ form.inputs[1].question
    /\ form.answers[1] = <<>> /\ form.done[1] = "left"
    /\ form.done[2] = "sent"

Digits == {"0", "1", "2", "3", "4", "5", "6", "7", "8", "9"}

\* a bare number: digits and nothing else
IsNumeric(s) == s # <<>> /\ \A i \in 1..Len(s) : s[i] \in Digits

\* C15 (as claimed): an answer get_ai_answer gives to the question
\* "Expected CTC" is a bare number, the profile's salary figure, whatever
\* text the provider returned.
C15_SalaryAnswer ==
    (qa.asked /\ qa.question = "Expected CTC" /\ qa.answer # <<>>)
        => IsNumeric(qa.answer) /\ qa.answer = SalaryFigure

\* C16 (as claimed): a step that found a control whose aria-label contains
\* Submit clicked it and ended the session submitted; a step that found
\* Continue / Next / Review only clicked it and the loop went on (or, after
\* the 6th step, ended); a step that found no control clicked nothing and
\* ended the session not submitted; and a submitted session raises the
\* applied count by exactly one.
C16_StepControl ==
    /\ [](\A t \in Threads :
            /\ th[t].offered = "submit"
                  => /\ th[t].clicked = "submit"
                     /\ th[t].pc = "wiz_ret" /\ th[t].submitted
            /\ th[t].offered = "nav"
                  => /\ th[t].clicked = "continue" /\ ~th[t].submitted
                     /\ \/ th[t].pc = StepBegin
                        \/ th[t].pc = "wiz_ret" /\ th[t].step = MaxSteps
            /\ (th[t].pc = "wiz_ret" /\ th[t].offered = "none")
                  => th[t].clicked = "none" /\ ~th[t].submitted)
    /\ [][\A t \in Threads :
            (th[t].pc = "wiz_ret" /\ th[t].submitted /\ Moved(t))
                => applied_count' = applied_count + 1]_vars

\* C20 (as claimed): whenever a step has clicked a control whose aria-label
\* contains Submit, taken by the filter or clicked as buttons[0], the
\* session returns submitted (and is counted by the caller).
C20_SubmitClickCounted ==
    \A t \in Threads :
        th[t].clicked \in {"submit", "other_submit"}
            => th[t].pc = "wiz_ret" /\ th[t].submitted

\* C17 (as claimed): the navigation of a wizard step is reached only from
\* the step's upload, and the upload only from the step's answer pass; what
\* the upload attaches, if anything, is the path tailor_resume returned for
\* the posting, and it is attached when the navigation control is clicked.
C17_StepOrder ==
    [][\A t \in Threads :
        Moved(t) =>
            /\ th'[t].pc = "wiz_nav"
                  => /\ th[t].pc = "wiz_upload"
                     /\ th'[t].attached \in {"none", th[t].resume_to_use}
                     /\ th[t].resume_to_use \in {"original", "tailored"}
            /\ th'[t].pc = "wiz_upload" => th[t].pc = "wiz_answer"
            /\ th[t].pc = "wiz_nav" => th'[t].pc \in {"wiz_answer", "wiz_ret"}]_vars

\* C18: in tailor_resume of linkedin_using_ai.py Gemini is called exactly
\* when it is configured; Groq is called exactly when it is configured and
\* Gemini was not configured, raised, or gave no or empty text; so Groq is
\* never called once Gemini has given non-empty text, and the tailored text
\* is that of the first of Gemini, Groq that returned a non-empty text.
C18_ProviderOrder ==
    \A t \in Threads :
        LET x == th[t].tailor
        IN  (variant = "ai" /\ x.called) =>
                /\ x.gemini # "skip" <=> gemini_client
                /\ x.groq # "skip" <=> (groq_client /\ x.gemini # "text")
                /\ x.gemini = "text" => x.groq = "skip" /\ x.by = "gemini"
                /\ x.by = "gemini" <=> x.gemini = "text"
                /\ x.by = "groq" <=> (x.gemini # "text" /\ x.groq = "text")
                /\ x.path = "tailored" => x.by # "none"

\* C18 witness: Gemini returned an empty text, Groq was called and its text
\* was taken
C18_Witness ==
    \E t \in Threads :
        /\ variant = "ai" /\ th[t].tailor.called
        /\ th[t].tailor.gemini = "empty" /\ th[t].tailor.groq = "text"
        /\ th[t].tailor.by = "groq" /\ th[t].tailor.path = "tailored"

\* C19: the keyword index only moves to the next keyword, and a search is
\* made for the keyword the loop stands at; the cards kept from a search are
\* the first 3 (or fewer) it yielded, in its order; a posting is opened only
\* by the card loop, which takes the first card left and leaves the rest;
\* the cards left never grow but by a search; and a session is started only
\* for the card opened.  So a run starts at most 3 sessions per keyword.
C19_ProcessingOrder ==
    /\ [](\A t \in Threads :
            /\ Len(th[t].job_cards) <= CardsPerKeyword
            /\ th[t].found # <<>> =>
                  /\ Len(th[t].job_cards) = Min(CardsPerKeyword, Len(th[t].found))
                  /\ \A i \in 1..Len(th[t].job_cards) :
                        th[t].job_cards[i] = th[t].found[i])
    /\ [][\A t \in Threads :
            Moved(t) =>
                /\ (InCycle(t) /\ th'[t].pc # "sleep" /\ th'[t].pc # "idle"
                        /\ th'[t].pc # "crashed"
                        /\ th'[t].keyword # th[t].keyword)
                      => th'[t].keyword = th[t].keyword + 1
                /\ th'[t].pc = "search"
                      => /\ th[t].pc = "kw_check"
                         /\ th'[t].keyword = th[t].keyword
                         /\ th[t].keyword \in 1..Len(job_keywords)
                /\ th'[t].pc = "open"
                      => /\ th[t].pc = "card_check" /\ th[t].job_cards # <<>>
                         /\ th'[t].card = Head(th[t].job_cards)
                         /\ th'[t].job_cards = Tail(th[t].job_cards)
                         /\ th'[t].keyword = th[t].keyword
                /\ th'[t].job_cards # th[t].job_cards
                      => \/ th[t].pc = "search"
                         \/ Len(th'[t].job_cards) < Len(th[t].job_cards)
                /\ th'[t].pc = "find_apply" => th[t].pc = "open"
                /\ th'[t].pc = "gate" => th[t].pc = "find_apply"
                /\ th[t].pc = "gate"
                      => th'[t].pc \in {"card_check", "apply_click", "tailor"}
                /\ acted' # acted => th[t].pc = "apply_click"]_vars

\* C19 witness: the search for the second keyword yielded more than 3 cards
\* and the first 3 are the ones to visit
C19_Witness ==
    \E t \in Threads :
        /\ th[t].pc = "card_check" /\ th[t].keyword = 2
        /\ Len(th[t].found) > CardsPerKeyword
        /\ Len(th[t].job_cards) = CardsPerKeyword

====
